---- MODULE Spec2Model ----
(***************************************************************************)
(* A model of multi_model.py: the hyperparameter sweep of the main block,  *)
(* the training loop of train / evaluate_model, and the data preparation   *)
(* of pre_process / BoolQADataset.                                         *)
(*                                                                         *)
(* Three specifications share the module:                                  *)
(*   Spec      the main block (argument parsing, sweep, chart)             *)
(*   SpecTrain one call of train, step by step                             *)
(*   SpecData  one call of pre_process followed by __getitem__ calls       *)
(*                                                                         *)
(* Python values are written as follows: floats that the program only      *)
(* passes around are kept as their literals ("1e-4"), accuracies are       *)
(* fractions <<correct, total>>, lengths on the chart's x axis are in      *)
(* hundredths, Python booleans are the strings "True" / "False".           *)
(***************************************************************************)
EXTENDS Integers, Sequences, FiniteSets, TLC

VARIABLES
    \* ---- main block
    args,                \* the parsed command line (argparse namespace)
    nrows,               \* sizes of the splits load_dataset("boolq") returns
    pc,                  \* position in the main block
    mi, li, ei,          \* positions in the three nested for loops (1-based)
    calls,               \* the calls made by the sweep, in order
    loaders,             \* what the last pre_process returned
    result,              \* what the last train returned
    valrank,
    valid_accuracy,
    test_accuracy_list,
    chart,               \* the matplotlib figure being built
    saved,               \* the files written by savefig
    error,               \* the uncaught exception, if any
    \* ---- train / evaluate_model
    t_pc,                \* position in train
    num_epochs,
    train_dataloader,    \* a data loader is the sequence of its batch sizes
    validation_dataloader,
    test_dataloader,
    epoch,               \* 0-based, as in range(num_epochs)
    i,                   \* 0-based index of the training batch
    mode,                \* mymodel.training: "train" or "eval"
    grads,               \* number of backward passes accumulated in .grad
    optimizer_steps,     \* number of optimizer.step() calls
    scheduler_steps,     \* number of lr_scheduler.step() calls made by train
    num_training_steps,  \* as given to get_scheduler
    logits,              \* correct predictions in the current training batch
    train_accuracy,      \* the metric of the epoch: <<correct, total>>
    train_acc,
    val_acc,
    acc,                 \* "unbound" until line 191 runs
    val,                 \* "unbound" until line 192 runs
    ev,                  \* the running evaluate_model call
    test_acc,
    ret,                 \* what train returned
    steps,               \* steps performed on the current training batch
    events,              \* batches processed and evaluations made, in order
    hits,                \* per epoch, the predictions of that epoch's batches
    \* ---- pre_process / BoolQADataset
    d_pc,                \* position in the data preparation
    small_subset,        \* the argument of pre_process
    corpus,              \* the data set on disk: words of its long passages
    shuffle,             \* the permutation dataset.shuffle() picked
    datasets,            \* what pre_process built
    iter,                \* the data set a loader walks, and the next index
    item                 \* what __getitem__ returned last

sweepVars == <<args, nrows, pc, mi, li, ei, calls, loaders, result, valrank,
               valid_accuracy, test_accuracy_list, chart, saved, error>>
trainVars == <<t_pc, num_epochs, train_dataloader, validation_dataloader,
               test_dataloader, epoch, i, mode, grads, optimizer_steps,
               scheduler_steps, num_training_steps, logits, train_accuracy,
               train_acc, val_acc, acc, val, ev, test_acc, ret, steps, events,
               hits>>
dataVars == <<d_pc, small_subset, corpus, shuffle, datasets, iter, item>>
vars == <<sweepVars, trainVars, dataVars>>

(***************************************************************************)
(* Bounds of the model.                                                    *)
(***************************************************************************)
NumOutcomes == 2        \* distinct results one train call may return
MaxEpochs == 2          \* num_epochs of the modelled train call
MaxExamples == 2        \* examples in a data set handed to train
MaxBatchSize == 2       \* batch size of the loaders handed to train
MaxQuestionWords == 2   \* words in a question
MaxPassageWords == 129  \* words in a passage
MaxRows == 2            \* rows of the train split read through BoolQADataset
MaxValidationRows == 2  \* rows of the validation split read through BoolQADataset

Min(a, b) == IF a < b THEN a ELSE b

None == "None"

(***************************************************************************)
(* Python truthiness of the values small_subset can take.                  *)
(***************************************************************************)
Truthy(v) == v \notin {"False", "None", ""}

(***************************************************************************)
(* pre_process: data slicing.  A subset is the slice [lo, hi) of a split   *)
(* of the shuffled data set; Python clamps slice bounds to the length.     *)
(***************************************************************************)
Slice(split, lo, hi, n) ==
    [split |-> split, lo |-> Min(lo, n), hi |-> IF Min(hi, n) < Min(lo, n) THEN Min(lo, n) ELSE Min(hi, n)]

SliceLen(s) == s.hi - s.lo

Rows(s) == {<<s.split, r>> : r \in s.lo .. (s.hi - 1)}

max_len == 128

SmallSubsetRows == 10

TrainRows == 8000

Subsets(subset, n) ==
    IF Truthy(subset)
    THEN [train |-> Slice("train", 0, SmallSubsetRows, n.train),
          dev   |-> Slice("train", 0, SmallSubsetRows, n.train),
          test  |-> Slice("train", 0, SmallSubsetRows, n.train)]
    ELSE [train |-> Slice("train", 0, TrainRows, n.train),
          dev   |-> Slice("validation", 0, n.validation, n.validation),
          test  |-> Slice("train", TrainRows, n.train, n.train)]

(***************************************************************************)
(* DataLoader(dataset, batch_size): the sequence of batch sizes, the last  *)
(* batch holding the remainder.                                            *)
(***************************************************************************)
DataLoader(len, batch_size) ==
    [b \in 1 .. ((len + batch_size - 1) \div batch_size) |->
        IF b * batch_size <= len THEN batch_size ELSE len - (b - 1) * batch_size]

pre_process(model_name, batch_size, device, subset, n) ==
    LET s == Subsets(subset, n)
    IN  [pretrained_model      |-> [name |-> model_name, device |-> device],
         subsets               |-> s,
         max_len               |-> max_len,
         train_dataloader      |-> DataLoader(SliceLen(s.train), batch_size),
         validation_dataloader |-> DataLoader(SliceLen(s.dev), batch_size),
         test_dataloader       |-> DataLoader(SliceLen(s.test), batch_size)]

(***************************************************************************)
(* The main block.                                                         *)
(***************************************************************************)
learning_rates == <<"1e-4", "5e-4", "1e-3">>
training_epoch == <<5, 7, 9>>
model_list == <<"bert-base-uncased">>

Defaults ==
    [experiment |-> None, small_subset |-> "False", num_epochs |-> 1,
     lr |-> "5e-5", batch_size |-> 32, device |-> "cuda",
     model |-> "distilbert-base-uncased"]

\* Command lines: no flag given, every flag given, and two mixtures.
Given ==
    [experiment |-> "run1", small_subset |-> "True", num_epochs |-> 3,
     lr |-> "1e-3", batch_size |-> 8, device |-> "cpu",
     model |-> "roberta-base"]

Mix(flags) == [f \in DOMAIN Defaults |-> IF f \in flags THEN Given[f] ELSE Defaults[f]]

ArgChoices ==
    {Defaults, Given, Mix({"small_subset", "model", "batch_size"}),
     Mix({"experiment", "num_epochs", "lr", "device"})}

\* The splits of the data set are outside the program.  The sweep runs on
\* the shape of BoolQ, where a subset is told by the positions it takes of
\* the shuffled split; the data sets whose rows are read one by one are
\* kept small enough to try every order dataset.shuffle() can produce.
SmallShape == [train |-> 12, validation |-> 4]

BoolQShape == [train |-> 9427, validation |-> 3270]

DatasetShapes ==
    {[train |-> a, validation |-> b] : a \in 1 .. MaxRows, b \in 1 .. MaxValidationRows}

\* Variant: the sweep passes the command line's values on.
PreProcessCall_args(model) ==
    [fn |-> "pre_process", model_name |-> args.model, batch_size |-> args.batch_size,
     device |-> args.device, small_subset |-> args.small_subset]

\* Arguments of the pre_process call of line 291.
PreProcessCall(model) ==
    [fn |-> "pre_process", model_name |-> model, batch_size |-> 64,
     device |-> "cuda", small_subset |-> "store_true"]

\* Arguments of the train call of line 295.
TrainCall(ep, lr) ==
    [fn |-> "train", num_epochs |-> ep, device |-> "cuda", lr |-> lr]

\* What train hands back to the sweep: (mean training accuracy, mean
\* validation accuracy, {'accuracy': test accuracy}), in percent.
TrainResult(o) == <<2 * o, 2 * o + 1, [accuracy |-> 2 * o - 1]>>

\* Variant: the failing configuration is skipped and the results so far are plotted.
Propagate_caught(at) == "collect"

\* No try/except surrounds the sweep: an exception ends the program.
Propagate(at) == "crashed"

NoError == [in |-> "none", config |-> 0, ncalls |-> 0]

NoLoaders == pre_process("none", 1, "none", "True", [train |-> 0, validation |-> 0])

NoChart == [valid |-> <<>>, test |-> <<>>, xticks |-> <<>>, drawn |-> FALSE]

InitSweep ==
    /\ args \in ArgChoices
    /\ nrows = BoolQShape
    /\ pc = "pre_process"
    /\ mi = 1 /\ li = 1 /\ ei = 1
    /\ calls = <<>>
    /\ loaders = NoLoaders
    /\ result = None
    /\ valrank = <<>>
    /\ valid_accuracy = None
    /\ test_accuracy_list = None
    /\ chart = NoChart
    /\ saved = {}
    /\ error = NoError

\* line 291: pre_process(model, 64, "cuda", 'store_true') returns
CallPreProcess ==
    /\ pc = "pre_process"
    /\ LET c == PreProcessCall(model_list[mi])
       IN  /\ calls' = Append(calls, c)
           /\ loaders' = pre_process(c.model_name, c.batch_size, c.device, c.small_subset, nrows)
    /\ pc' = "train"
    /\ UNCHANGED <<args, nrows, mi, li, ei, result, valrank, valid_accuracy,
                   test_accuracy_list, chart, saved, error>>

\* line 291: pre_process raises (no network, CUDA missing, ...)
PreProcessRaises ==
    /\ pc = "pre_process"
    /\ calls' = Append(calls, PreProcessCall(model_list[mi]))
    /\ error' = [in |-> "pre_process", config |-> Len(valrank) + 1, ncalls |-> Len(calls) + 1]
    /\ pc' = Propagate("pre_process")
    /\ UNCHANGED <<args, nrows, mi, li, ei, loaders, result, valrank,
                   valid_accuracy, test_accuracy_list, chart, saved>>

\* line 295: train(...) returns
CallTrain ==
    /\ pc = "train"
    /\ calls' = Append(calls, TrainCall(training_epoch[ei], learning_rates[li]))
    /\ \E o \in 1 .. NumOutcomes : result' = TrainResult(o)
    /\ pc' = "append"
    /\ UNCHANGED <<args, nrows, mi, li, ei, loaders, valrank, valid_accuracy,
                   test_accuracy_list, chart, saved, error>>

\* line 295: train raises (out of memory, ...)
TrainRaises ==
    /\ pc = "train"
    /\ calls' = Append(calls, TrainCall(training_epoch[ei], learning_rates[li]))
    /\ error' = [in |-> "train", config |-> Len(valrank) + 1, ncalls |-> Len(calls) + 1]
    /\ pc' = Propagate("train")
    /\ UNCHANGED <<args, nrows, mi, li, ei, loaders, result, valrank,
                   valid_accuracy, test_accuracy_list, chart, saved>>

\* Variant: line 296 one level out, run once per learning rate.
AppendValrank_outer ==
    /\ pc = "append"
    /\ IF ei < Len(training_epoch)
       THEN valrank' = valrank /\ ei' = ei + 1 /\ pc' = "pre_process"
       ELSE /\ valrank' = Append(valrank, <<result[2], learning_rates[li], training_epoch[ei], result[3]>>)
            /\ ei' = ei /\ pc' = "collect"
    /\ UNCHANGED <<args, nrows, mi, li, calls, loaders, result, valid_accuracy,
                   test_accuracy_list, chart, saved, error>>

\* line 296, and the step of the innermost for loop
AppendValrank ==
    /\ pc = "append"
    /\ valrank' = Append(valrank, <<result[2], learning_rates[li], training_epoch[ei], result[3]>>)
    /\ IF ei < Len(training_epoch)
       THEN ei' = ei + 1 /\ pc' = "pre_process"
       ELSE ei' = ei /\ pc' = "collect"
    /\ UNCHANGED <<args, nrows, mi, li, calls, loaders, result, valid_accuracy,
                   test_accuracy_list, chart, saved, error>>

\* Variant: the column is read from the ranking in reverse order.
Column_reversed(rank, c) == [k \in 1 .. Len(rank) |-> rank[Len(rank) + 1 - k][c]]

\* np.array(valrank)[:, c]
Column(rank, c) == [k \in 1 .. Len(rank) |-> rank[k][c]]

\* lines 298-299, and the steps of the two outer for loops
Collect ==
    /\ pc = "collect"
    /\ valid_accuracy' = Column(valrank, 1)
    /\ test_accuracy_list' = [k \in 1 .. Len(valrank) |-> Column(valrank, 4)[k].accuracy]
    /\ IF li < Len(learning_rates)
       THEN li' = li + 1 /\ ei' = 1 /\ mi' = mi /\ pc' = "pre_process"
       ELSE IF mi < Len(model_list)
            THEN mi' = mi + 1 /\ li' = 1 /\ ei' = 1 /\ pc' = "pre_process"
            ELSE mi' = mi /\ li' = li /\ ei' = ei /\ pc' = "plot"
    /\ UNCHANGED <<args, nrows, calls, loaders, result, valrank, chart, saved, error>>

barWidth == 25

\* The tick labels of line 326: '<lr>\n Epoch=<n>'.
Label(lr, n) == [lr |-> lr, epoch |-> n]

TickLabels ==
    <<Label("1e-4", 1), Label("1e-4", 2), Label("1e-4", 3),
      Label("5e-4", 1), Label("5e-4", 2), Label("5e-4", 3),
      Label("1e-3", 1), Label("1e-3", 2), Label("1e-3", 3)>>

\* np.arange(n), in hundredths
br1(n) == [k \in 1 .. n |-> 100 * (k - 1)]

br2(n) == [k \in 1 .. n |-> br1(n)[k] + barWidth]

\* plt.bar(x, height): one bar per position
Bars(x, height) == [k \in 1 .. Len(x) |-> [x |-> x[k], height |-> height[k]]]

\* plt.xticks(ticks, labels)
XTicks(n, labels) == [k \in 1 .. n |-> [x |-> 100 * (k - 1) + barWidth, label |-> labels[k]]]

\* lines 301-328; plt.bar and plt.xticks raise when the lengths differ
Plot ==
    /\ pc = "plot"
    /\ LET IT == valid_accuracy
           ECE == test_accuracy_list
       IN  IF Len(ECE) = Len(IT) /\ Len(TickLabels) = Len(IT)
           THEN /\ chart' = [valid  |-> Bars(br1(Len(IT)), IT),
                             test   |-> Bars(br2(Len(IT)), ECE),
                             xticks |-> XTicks(Len(IT), TickLabels),
                             drawn  |-> TRUE]
                /\ pc' = "savefig"
                /\ error' = error
           ELSE /\ chart' = chart
                /\ pc' = "crashed"
                /\ error' = [in |-> "plot", config |-> Len(valrank), ncalls |-> Len(calls)]
    /\ UNCHANGED <<args, nrows, mi, li, ei, calls, loaders, result, valrank,
                   valid_accuracy, test_accuracy_list, saved>>

\* line 329
SaveFig ==
    /\ pc = "savefig"
    /\ saved' = saved \cup {"bert-base-uncased.png"}
    /\ pc' = "done"
    /\ UNCHANGED <<args, nrows, mi, li, ei, calls, loaders, result, valrank,
                   valid_accuracy, test_accuracy_list, chart, error>>

(***************************************************************************)
(* train and evaluate_model.                                               *)
(*                                                                         *)
(* An accuracy is the fraction <<correct, total>> that the metric's        *)
(* compute() divides out; np.mean of a list of them is again a fraction.   *)
(***************************************************************************)
FracAdd(a, b) == <<a[1] * b[2] + b[1] * a[2], a[2] * b[2]>>

FracEq(a, b) == a[1] * b[2] = b[1] * a[2]

RECURSIVE FracSum(_)
FracSum(s) == IF Len(s) = 0 THEN <<0, 1>> ELSE FracAdd(s[1], FracSum(Tail(s)))

\* np.mean(s), s not empty
Mean(s) == <<FracSum(s)[1], FracSum(s)[2] * Len(s)>>

\* Variant: one metric, created before the first epoch, serves all epochs.
LoadMetric_once(previous, e) == IF e = 0 THEN <<0, 0>> ELSE previous

\* evaluate.load('accuracy'): a metric without predictions
LoadMetric(previous, e) == <<0, 0>>

\* metric.add_batch(predictions, references)
AddBatchTo(metric, correct, size) == <<metric[1] + correct, metric[2] + size>>

\* Variant: mymodel.train() is called once, before the epoch loop.
TrainMode_once(current, e) == IF e = 0 THEN "train" ELSE current

\* mymodel.train() at the head of epoch e (line 138)
TrainMode(current, e) == "train"

\* model.eval() (line 90)
EvalMode(current) == "eval"

\* Variant: lr_scheduler.step() is called before optimizer.step().
NextStep_swapped(s) ==
    CASE s = "forward"        -> "loss"
      [] s = "loss"           -> "backward"
      [] s = "backward"       -> "scheduler_step"
      [] s = "scheduler_step" -> "optimizer_step"
      [] s = "optimizer_step" -> "zero_grad"
      [] s = "zero_grad"      -> "add_batch"

\* The statements of lines 160-179, in order.
NextStep(s) ==
    CASE s = "forward"        -> "loss"
      [] s = "loss"           -> "backward"
      [] s = "backward"       -> "optimizer_step"
      [] s = "optimizer_step" -> "scheduler_step"
      [] s = "scheduler_step" -> "zero_grad"
      [] s = "zero_grad"      -> "add_batch"

NoEval == [which |-> "none", b |-> 0, dev_accuracy |-> <<0, 0>>]

NoHits == [train |-> <<>>, val |-> <<>>, test |-> <<0, 0>>]

\* A forward pass, as seen from outside the model.
Pass(kind, e, b) ==
    [kind |-> kind, epoch |-> e, batch |-> b, mode |-> mode, version |-> optimizer_steps]

\* AutoModelForSequenceClassification.from_pretrained returns the model in
\* evaluation mode, without gradients.
InitTrain ==
    /\ t_pc = "setup"
    /\ num_epochs \in 0 .. MaxEpochs
    /\ \E bs \in 1 .. MaxBatchSize :
         /\ \E n \in 1 .. MaxExamples : train_dataloader = DataLoader(n, bs)
         /\ \E n \in 1 .. MaxExamples : validation_dataloader = DataLoader(n, bs)
         /\ \E n \in 1 .. MaxExamples : test_dataloader = DataLoader(n, bs)
    /\ epoch = 0
    /\ i = 0
    /\ mode = "eval"
    /\ grads = 0
    /\ optimizer_steps = 0
    /\ scheduler_steps = 0
    /\ num_training_steps = 0
    /\ logits = 0
    /\ train_accuracy = <<0, 0>>
    /\ train_acc = <<>>
    /\ val_acc = <<>>
    /\ acc = "unbound"
    /\ val = "unbound"
    /\ ev = NoEval
    /\ test_acc = None
    /\ ret = None
    /\ steps = <<>>
    /\ events = <<>>
    /\ hits = NoHits

\* lines 119-134: optimizer, scheduler, the two lists, first test of the loop
Setup ==
    /\ t_pc = "setup"
    /\ num_training_steps' = Len(train_dataloader) * num_epochs
    /\ train_acc' = <<>>
    /\ val_acc' = <<>>
    /\ epoch' = 0
    /\ t_pc' = IF num_epochs > 0 THEN "epoch" ELSE "test"
    /\ UNCHANGED <<num_epochs, train_dataloader, validation_dataloader,
                   test_dataloader, i, mode, grads, optimizer_steps,
                   scheduler_steps, logits, train_accuracy, acc, val, ev,
                   test_acc, ret, steps, events, hits>>

\* lines 138-145: training mode, a metric for the epoch, first batch
EpochStart ==
    /\ t_pc = "epoch"
    /\ mode' = TrainMode(mode, epoch)
    /\ train_accuracy' = LoadMetric(train_accuracy, epoch)
    /\ hits' = [hits EXCEPT !.train = Append(@, <<0, 0>>), !.val = Append(@, <<0, 0>>)]
    /\ i' = 0
    /\ steps' = <<>>
    /\ t_pc' = IF Len(train_dataloader) > 0 THEN "forward" ELSE "epoch_end"
    /\ UNCHANGED <<num_epochs, train_dataloader, validation_dataloader,
                   test_dataloader, epoch, grads, optimizer_steps,
                   scheduler_steps, num_training_steps, logits, train_acc,
                   val_acc, acc, val, ev, test_acc, ret, events>>

\* lines 160-165: the forward pass over batch i; the model decides how many
\* of the batch's examples it predicts correctly
Forward ==
    /\ t_pc = "forward"
    /\ \E correct \in 0 .. train_dataloader[i + 1] : logits' = correct
    /\ events' = Append(events, Pass("train", epoch, i))
    /\ steps' = <<"forward">>
    /\ t_pc' = NextStep("forward")
    /\ UNCHANGED <<num_epochs, train_dataloader, validation_dataloader,
                   test_dataloader, epoch, i, mode, grads, optimizer_steps,
                   scheduler_steps, num_training_steps, train_accuracy,
                   train_acc, val_acc, acc, val, ev, test_acc, ret, hits>>

\* line 168
Loss ==
    /\ t_pc = "loss"
    /\ steps' = Append(steps, "loss")
    /\ t_pc' = NextStep("loss")
    /\ UNCHANGED <<num_epochs, train_dataloader, validation_dataloader,
                   test_dataloader, epoch, i, mode, grads, optimizer_steps,
                   scheduler_steps, num_training_steps, logits, train_accuracy,
                   train_acc, val_acc, acc, val, ev, test_acc, ret, events, hits>>

\* line 170: gradients are added to the ones already there
Backward ==
    /\ t_pc = "backward"
    /\ grads' = grads + 1
    /\ steps' = Append(steps, "backward")
    /\ t_pc' = NextStep("backward")
    /\ UNCHANGED <<num_epochs, train_dataloader, validation_dataloader,
                   test_dataloader, epoch, i, mode, optimizer_steps,
                   scheduler_steps, num_training_steps, logits, train_accuracy,
                   train_acc, val_acc, acc, val, ev, test_acc, ret, events, hits>>

\* line 171
OptimizerStep ==
    /\ t_pc = "optimizer_step"
    /\ optimizer_steps' = optimizer_steps + 1
    /\ steps' = Append(steps, "optimizer_step")
    /\ t_pc' = NextStep("optimizer_step")
    /\ UNCHANGED <<num_epochs, train_dataloader, validation_dataloader,
                   test_dataloader, epoch, i, mode, grads, scheduler_steps,
                   num_training_steps, logits, train_accuracy, train_acc,
                   val_acc, acc, val, ev, test_acc, ret, events, hits>>

\* line 172
SchedulerStep ==
    /\ t_pc = "scheduler_step"
    /\ scheduler_steps' = scheduler_steps + 1
    /\ steps' = Append(steps, "scheduler_step")
    /\ t_pc' = NextStep("scheduler_step")
    /\ UNCHANGED <<num_epochs, train_dataloader, validation_dataloader,
                   test_dataloader, epoch, i, mode, grads, optimizer_steps,
                   num_training_steps, logits, train_accuracy, train_acc,
                   val_acc, acc, val, ev, test_acc, ret, events, hits>>

\* line 173
ZeroGrad ==
    /\ t_pc = "zero_grad"
    /\ grads' = 0
    /\ steps' = Append(steps, "zero_grad")
    /\ t_pc' = NextStep("zero_grad")
    /\ UNCHANGED <<num_epochs, train_dataloader, validation_dataloader,
                   test_dataloader, epoch, i, mode, optimizer_steps,
                   scheduler_steps, num_training_steps, logits, train_accuracy,
                   train_acc, val_acc, acc, val, ev, test_acc, ret, events, hits>>

\* lines 176-179, and the step of the batch loop
AddBatch ==
    /\ t_pc = "add_batch"
    /\ train_accuracy' = AddBatchTo(train_accuracy, logits, train_dataloader[i + 1])
    /\ hits' = [hits EXCEPT !.train[epoch + 1] = AddBatchTo(@, logits, train_dataloader[i + 1])]
    /\ steps' = Append(steps, "add_batch")
    /\ i' = i + 1
    /\ t_pc' = IF i + 1 < Len(train_dataloader) THEN "forward" ELSE "epoch_end"
    /\ UNCHANGED <<num_epochs, train_dataloader, validation_dataloader,
                   test_dataloader, epoch, mode, grads, optimizer_steps,
                   scheduler_steps, num_training_steps, logits, train_acc,
                   val_acc, acc, val, ev, test_acc, ret, events>>

\* lines 182-185
EpochEnd ==
    /\ t_pc = "epoch_end"
    /\ train_acc' = Append(train_acc, [accuracy |-> train_accuracy])
    /\ t_pc' = "validate"
    /\ UNCHANGED <<num_epochs, train_dataloader, validation_dataloader,
                   test_dataloader, epoch, i, mode, grads, optimizer_steps,
                   scheduler_steps, num_training_steps, logits, train_accuracy,
                   val_acc, acc, val, ev, test_acc, ret, steps, events, hits>>

\* lines 87-90, entered from line 188 or line 194
EnterEvaluate(which) ==
    /\ ev' = [which |-> which, b |-> 0, dev_accuracy |-> LoadMetric(ev.dev_accuracy, 0)]
    /\ mode' = EvalMode(mode)
    /\ t_pc' = "evaluate"
    /\ UNCHANGED <<num_epochs, train_dataloader, validation_dataloader,
                   test_dataloader, epoch, i, grads, optimizer_steps,
                   scheduler_steps, num_training_steps, logits, train_accuracy,
                   train_acc, val_acc, acc, val, test_acc, ret, steps, events, hits>>

\* line 188
CallValidation == t_pc = "validate" /\ EnterEvaluate("val")

\* line 194
CallTest == t_pc = "test" /\ EnterEvaluate("test")

EvalLoader == IF ev.which = "val" THEN validation_dataloader ELSE test_dataloader

\* lines 92-99: one batch of the loader under evaluation
EvalBatch ==
    /\ t_pc = "evaluate"
    /\ ev.b < Len(EvalLoader)
    /\ \E correct \in 0 .. EvalLoader[ev.b + 1] :
         /\ ev' = [ev EXCEPT !.b = @ + 1,
                             !.dev_accuracy = AddBatchTo(@, correct, EvalLoader[ev.b + 1])]
         /\ hits' = IF ev.which = "val"
                    THEN [hits EXCEPT !.val[epoch + 1] = AddBatchTo(@, correct, EvalLoader[ev.b + 1])]
                    ELSE [hits EXCEPT !.test = AddBatchTo(@, correct, EvalLoader[ev.b + 1])]
    /\ events' = Append(events, Pass(ev.which, epoch, ev.b))
    /\ UNCHANGED <<t_pc, num_epochs, train_dataloader, validation_dataloader,
                   test_dataloader, epoch, i, mode, grads, optimizer_steps,
                   scheduler_steps, num_training_steps, logits, train_accuracy,
                   train_acc, val_acc, acc, val, test_acc, ret, steps>>

\* line 102 into lines 188-192, and the step of the epoch loop
ValidationReturns ==
    /\ t_pc = "evaluate"
    /\ ev.which = "val"
    /\ ev.b = Len(EvalLoader)
    /\ val_acc' = Append(val_acc, [accuracy |-> ev.dev_accuracy])
    /\ acc' = [k \in 1 .. Len(train_acc) |-> train_acc[k].accuracy]
    /\ val' = [k \in 1 .. Len(val_acc') |-> val_acc'[k].accuracy]
    /\ ev' = NoEval
    /\ epoch' = epoch + 1
    /\ t_pc' = IF epoch + 1 < num_epochs THEN "epoch" ELSE "test"
    /\ UNCHANGED <<num_epochs, train_dataloader, validation_dataloader,
                   test_dataloader, i, mode, grads, optimizer_steps,
                   scheduler_steps, num_training_steps, logits, train_accuracy,
                   train_acc, test_acc, ret, steps, events, hits>>

\* line 102 into line 194
TestReturns ==
    /\ t_pc = "evaluate"
    /\ ev.which = "test"
    /\ ev.b = Len(EvalLoader)
    /\ test_acc' = [accuracy |-> ev.dev_accuracy]
    /\ ev' = NoEval
    /\ t_pc' = "return"
    /\ UNCHANGED <<num_epochs, train_dataloader, validation_dataloader,
                   test_dataloader, epoch, i, mode, grads, optimizer_steps,
                   scheduler_steps, num_training_steps, logits, train_accuracy,
                   train_acc, val_acc, acc, val, ret, steps, events, hits>>

\* line 195; acc and val are bound only once an epoch has run
Return ==
    /\ t_pc = "return"
    /\ IF num_epochs = 0
       THEN ret' = ret /\ t_pc' = "raised"
       ELSE ret' = <<Mean(acc), Mean(val), test_acc>> /\ t_pc' = "returned"
    /\ UNCHANGED <<num_epochs, train_dataloader, validation_dataloader,
                   test_dataloader, epoch, i, mode, grads, optimizer_steps,
                   scheduler_steps, num_training_steps, logits, train_accuracy,
                   train_acc, val_acc, acc, val, ev, test_acc, steps, events, hits>>

(***************************************************************************)
(* BoolQADataset.                                                          *)
(*                                                                         *)
(* A text is a sequence of words.  Word 0 is the literal "[SEP]", which    *)
(* the tokenizer maps to its separator token; an odd word is one word      *)
(* piece, an even word is split into two.                                  *)
(***************************************************************************)
Vocab == [pad |-> 0, cls |-> 101, sep |-> 102]

Pieces(w) ==
    IF w = 0 THEN <<Vocab.sep>>
    ELSE IF w % 2 = 1 THEN <<1000 + w>>
    ELSE <<1000 + w, 2000 + w>>

RECURSIVE Tokenize(_)
Tokenize(text) ==
    IF Len(text) = 0 THEN <<>>
    ELSE IF Len(text) = 1 THEN Pieces(text[1])
    ELSE LET h == Len(text) \div 2
         IN  Tokenize(SubSeq(text, 1, h)) \o Tokenize(SubSeq(text, h + 1, Len(text)))

\* Variant: truncation=False.
Truncate_none(tokens, max_length) == tokens

\* truncation=True: the text's tokens are cut so that the two special
\* tokens still fit into max_length
Truncate(tokens, max_length) ==
    IF Len(tokens) + 2 > max_length THEN SubSeq(tokens, 1, max_length - 2) ELSE tokens

\* add_special_tokens=True
AddSpecialTokens(tokens) == <<Vocab.cls>> \o tokens \o <<Vocab.sep>>

\* padding="max_length"
Pad(ids, max_length) == ids \o [k \in 1 .. (max_length - Len(ids)) |-> Vocab.pad]

\* return_attention_mask=True
AttentionMask(ids, max_length) == [k \in 1 .. max_length |-> IF k <= Len(ids) THEN 1 ELSE 0]

encode_plus(text, max_length) ==
    LET ids == AddSpecialTokens(Truncate(Tokenize(text), max_length))
    IN  [input_ids |-> Pad(ids, max_length), attention_mask |-> AttentionMask(ids, max_length)]

\* The data set itself is outside the program.  Row k of a split has a
\* question of k mod (MaxQuestionWords + 1) words; the passages of the even
\* rows are the long ones of the corpus, any number of words up to
\* MaxPassageWords, those of the odd rows have k - 1 words, so that inputs
\* shorter than, as long as and longer than max_len occur.
Words(n, k) == [j \in 1 .. n |-> 1 + ((j + k) % 2)]

Question(k) == Words(k % (MaxQuestionWords + 1), k)

Passage(k) == Words(IF k % 2 = 0 THEN corpus ELSE k - 1, k + 1)

Answer(k) == IF k % 3 = 0 THEN "False" ELSE "True"

\* dataset.shuffle(): every order of the n rows of a split
Orders(n) ==
    {p \in [0 .. (n - 1) -> 0 .. (n - 1)] :
        \A a, b \in 0 .. (n - 1) : p[a] = p[b] => a = b}

Unshuffled == [train |-> <<>>, validation |-> <<>>]

\* the row of the split that the shuffle put at position r
Shuffled(split, r) == shuffle[split][r]

\* question + " [SEP] " + passage
InputEncoding(question, passage) == question \o <<0>> \o passage

\* torch.tensor(answer, dtype=torch.long)
AsLong(answer) == IF answer = "True" THEN 1 ELSE 0

\* BoolQADataset.__getitem__(index) on the data set built from subset s
GetItemOf(s, index, max_length) ==
    LET k == Shuffled(s.split, s.lo + index)
        encoded_review == encode_plus(InputEncoding(Question(k), Passage(k)), max_length)
    IN  [input_ids      |-> encoded_review.input_ids,
         attention_mask |-> encoded_review.attention_mask,
         labels         |-> AsLong(Answer(k))]

NoItem == [input_ids |-> <<>>, attention_mask |-> <<>>, labels |-> 0]

NoIter == [which |-> "none", index |-> 0]

InitData ==
    /\ d_pc = "start"
    /\ small_subset \in {"True", "False", "store_true"}
    /\ corpus \in 0 .. MaxPassageWords
    /\ shuffle = Unshuffled
    /\ datasets = None
    /\ iter = NoIter
    /\ item = NoItem

\* pre_process(model_name, batch_size, device, small_subset)
LoadData ==
    /\ d_pc = "start"
    /\ \E t \in Orders(nrows.train), v \in Orders(nrows.validation) :
         shuffle' = [train |-> t, validation |-> v]
    /\ datasets' = pre_process("bert-base-uncased", 64, "cuda", small_subset, nrows)
    /\ d_pc' = "loaded"
    /\ UNCHANGED <<small_subset, corpus, iter, item>>

\* a DataLoader starts walking one of the three data sets
StartIteration ==
    /\ d_pc \in {"loaded", "item"}
    /\ iter.which = "none"
    /\ \E which \in {"train", "dev", "test"} : iter' = [which |-> which, index |-> 0]
    /\ d_pc' = "loaded"
    /\ UNCHANGED <<small_subset, corpus, shuffle, datasets, item>>

\* BoolQADataset.__len__
DatasetLen(which) == SliceLen(datasets.subsets[which])

\* the loader fetches the next example: __getitem__(index)
GetItem ==
    /\ d_pc \in {"loaded", "item"}
    /\ iter.which # "none"
    /\ iter.index < DatasetLen(iter.which)
    /\ item' = GetItemOf(datasets.subsets[iter.which], iter.index, datasets.max_len)
    /\ iter' = [iter EXCEPT !.index = @ + 1]
    /\ d_pc' = "item"
    /\ UNCHANGED <<small_subset, corpus, shuffle, datasets>>

\* the loader is exhausted: only the iterator ends
EndIteration ==
    /\ d_pc \in {"loaded", "item"}
    /\ iter.which # "none"
    /\ iter.index = DatasetLen(iter.which)
    /\ iter' = NoIter
    /\ UNCHANGED <<d_pc, small_subset, corpus, shuffle, datasets, item>>

(***************************************************************************)
(* The specifications.                                                     *)
(***************************************************************************)
IdleSweep ==
    /\ args = Defaults
    /\ pc = "idle"
    /\ mi = 1 /\ li = 1 /\ ei = 1
    /\ calls = <<>>
    /\ loaders = NoLoaders
    /\ result = None
    /\ valrank = <<>>
    /\ valid_accuracy = None
    /\ test_accuracy_list = None
    /\ chart = NoChart
    /\ saved = {}
    /\ error = NoError

IdleTrain ==
    /\ t_pc = "idle"
    /\ num_epochs = 0
    /\ train_dataloader = <<>>
    /\ validation_dataloader = <<>>
    /\ test_dataloader = <<>>
    /\ epoch = 0
    /\ i = 0
    /\ mode = "eval"
    /\ grads = 0
    /\ optimizer_steps = 0
    /\ scheduler_steps = 0
    /\ num_training_steps = 0
    /\ logits = 0
    /\ train_accuracy = <<0, 0>>
    /\ train_acc = <<>>
    /\ val_acc = <<>>
    /\ acc = "unbound"
    /\ val = "unbound"
    /\ ev = NoEval
    /\ test_acc = None
    /\ ret = None
    /\ steps = <<>>
    /\ events = <<>>
    /\ hits = NoHits

IdleData ==
    /\ d_pc = "idle"
    /\ small_subset = "store_true"
    /\ corpus = 0
    /\ shuffle = Unshuffled
    /\ datasets = None
    /\ iter = NoIter
    /\ item = NoItem

\* the main block
Init == InitSweep /\ IdleTrain /\ IdleData

Next ==
    \/ CallPreProcess /\ UNCHANGED <<trainVars, dataVars>>
    \/ PreProcessRaises /\ UNCHANGED <<trainVars, dataVars>>
    \/ CallTrain /\ UNCHANGED <<trainVars, dataVars>>
    \/ TrainRaises /\ UNCHANGED <<trainVars, dataVars>>
    \/ AppendValrank /\ UNCHANGED <<trainVars, dataVars>>
    \/ Collect /\ UNCHANGED <<trainVars, dataVars>>
    \/ Plot /\ UNCHANGED <<trainVars, dataVars>>
    \/ SaveFig /\ UNCHANGED <<trainVars, dataVars>>

Spec == Init /\ [][Next]_vars

\* one call of train
InitTrainOnly == InitTrain /\ IdleSweep /\ nrows = SmallShape /\ IdleData

NextTrain ==
    \/ Setup /\ UNCHANGED <<sweepVars, dataVars>>
    \/ EpochStart /\ UNCHANGED <<sweepVars, dataVars>>
    \/ Forward /\ UNCHANGED <<sweepVars, dataVars>>
    \/ Loss /\ UNCHANGED <<sweepVars, dataVars>>
    \/ Backward /\ UNCHANGED <<sweepVars, dataVars>>
    \/ OptimizerStep /\ UNCHANGED <<sweepVars, dataVars>>
    \/ SchedulerStep /\ UNCHANGED <<sweepVars, dataVars>>
    \/ ZeroGrad /\ UNCHANGED <<sweepVars, dataVars>>
    \/ AddBatch /\ UNCHANGED <<sweepVars, dataVars>>
    \/ EpochEnd /\ UNCHANGED <<sweepVars, dataVars>>
    \/ CallValidation /\ UNCHANGED <<sweepVars, dataVars>>
    \/ CallTest /\ UNCHANGED <<sweepVars, dataVars>>
    \/ EvalBatch /\ UNCHANGED <<sweepVars, dataVars>>
    \/ ValidationReturns /\ UNCHANGED <<sweepVars, dataVars>>
    \/ TestReturns /\ UNCHANGED <<sweepVars, dataVars>>
    \/ Return /\ UNCHANGED <<sweepVars, dataVars>>

SpecTrain == InitTrainOnly /\ [][NextTrain]_vars

\* one call of pre_process and the loaders' reads
InitDataOnly == InitData /\ IdleSweep /\ nrows \in DatasetShapes /\ IdleTrain

NextData ==
    \/ LoadData /\ UNCHANGED <<sweepVars, trainVars>>
    \/ StartIteration /\ UNCHANGED <<sweepVars, trainVars>>
    \/ GetItem /\ UNCHANGED <<sweepVars, trainVars>>
    \/ EndIteration /\ UNCHANGED <<sweepVars, trainVars>>

SpecData == InitDataOnly /\ [][NextData]_vars

(***************************************************************************)
(* Properties.                                                             *)
(***************************************************************************)
Odd(k) == k % 2 = 1

\* The nine configurations, in the order the claims state them.
SweepLr == <<"1e-4", "1e-4", "1e-4", "5e-4", "5e-4", "5e-4", "1e-3", "1e-3", "1e-3">>

SweepEpochs == <<5, 7, 9, 5, 7, 9, 5, 7, 9>>

\* The calls of a complete sweep, written without reference to the flags.
SweepTrace ==
    [k \in 1 .. 18 |->
        IF Odd(k)
        THEN [fn |-> "pre_process", model_name |-> "bert-base-uncased", batch_size |-> 64,
              device |-> "cuda", small_subset |-> "store_true"]
        ELSE [fn |-> "train", num_epochs |-> SweepEpochs[k \div 2], device |-> "cuda",
              lr |-> SweepLr[k \div 2]]]

\* C1: whatever the command line, the calls made so far are the first calls
\* of one and the same sequence: every pre_process call gets
\* 'bert-base-uncased', 64, 'cuda' and 'store_true', every train call gets
\* 'cuda' and an lr and epoch count of the hardcoded lists.
C1_FlagsDoNotReachSweep ==
    /\ Len(calls) <= Len(SweepTrace)
    /\ calls = SubSeq(SweepTrace, 1, Len(calls))
    /\ \A k \in 1 .. Len(calls) :
         calls[k].fn = "train" =>
            /\ calls[k].lr \in {"1e-4", "5e-4", "1e-3"}
            /\ calls[k].num_epochs \in {5, 7, 9}

C1_Witness == args = Given /\ Len(calls) = 18 /\ pc = "done"

\* C2: the sweep runs the nine configurations in order, learning rate
\* outer and epoch count inner; pre_process and train alternate, one call
\* of each per configuration; valrank gets one entry per configuration,
\* carrying its lr and epoch count; the chart is drawn after all nine.
C2_SweepOrder ==
    /\ Len(valrank) <= 9
    /\ \A k \in 1 .. Len(valrank) :
         /\ Len(valrank[k]) = 4
         /\ valrank[k][2] = SweepLr[k]
         /\ valrank[k][3] = SweepEpochs[k]
    /\ \A k \in 1 .. Len(calls) :
         /\ calls[k].fn = (IF Odd(k) THEN "pre_process" ELSE "train")
         /\ ~Odd(k) => /\ calls[k].lr = SweepLr[k \div 2]
                       /\ calls[k].num_epochs = SweepEpochs[k \div 2]
    /\ pc = "pre_process" => Len(calls) = 2 * Len(valrank)
    /\ pc = "train" => Len(calls) = 2 * Len(valrank) + 1
    /\ pc = "append" => Len(calls) = 2 * Len(valrank) + 2
    /\ pc = "collect" => Len(calls) = 2 * Len(valrank) /\ Len(valrank) \in {3, 6, 9}
    /\ pc \in {"plot", "savefig", "done"} => Len(valrank) = 9 /\ Len(calls) = 18

C2_Witness == pc = "done" /\ Len(valrank) = 9 /\ valrank[9][2] = "1e-3" /\ valrank[9][3] = 9

\* C3: once pre_process or train has raised, the program has stopped: no
\* further call has been made, no entry has been added to valrank, nothing
\* has been plotted and no file has been written.
C3_FailureEndsProgram ==
    error.in \in {"pre_process", "train"} =>
        /\ pc = "crashed"
        /\ ~ENABLED Next
        /\ Len(calls) = error.ncalls
        /\ Len(valrank) = error.config - 1
        /\ chart = NoChart
        /\ saved = {}

C3_Witness == error.in = "train" /\ error.config = 4 /\ pc = "crashed"

\* C5: the saved chart holds nine validation bars and nine test bars, the
\* bars at position i showing the mean validation accuracy and the test
\* accuracy of the i-th configuration of the sweep.
C5_ChartShowsSweep ==
    saved # {} =>
        /\ Len(valrank) = 9
        /\ Len(chart.valid) = 9
        /\ Len(chart.test) = 9
        /\ \A k \in 1 .. 9 :
             /\ chart.valid[k].x = 100 * (k - 1)
             /\ chart.valid[k].height = valrank[k][1]
             /\ chart.test[k].x = 100 * (k - 1) + 25
             /\ chart.test[k].height = valrank[k][4].accuracy

C5_Witness == saved = {"bert-base-uncased.png"} /\ valrank[1][1] # valrank[9][1]

\* C9: the training subset and the test subset that pre_process built for
\* the running configuration share no example.
C9_TrainTestDisjoint ==
    Rows(loaders.subsets.train) \cap Rows(loaders.subsets.test) = {}

\* C10: on the saved chart the tick label at position i names the learning
\* rate and the epoch count of the i-th configuration.
C10_TickLabelsNameConfig ==
    saved # {} =>
        \A k \in 1 .. Len(chart.xticks) :
            /\ chart.xticks[k].label.lr = valrank[k][2]
            /\ chart.xticks[k].label.epoch = valrank[k][3]

BatchSteps == <<"forward", "loss", "backward", "optimizer_step", "scheduler_step", "zero_grad">>

\* C6: the steps taken on a training batch are forward, loss, backward,
\* optimizer.step, lr_scheduler.step, zero_grad in this order; gradients are
\* zero when a forward pass starts; the scheduler never runs ahead of the
\* optimizer; when train returns both have been stepped
\* len(train_dataloader) * num_epochs times, the scheduler's
\* num_training_steps.
C6_StepOrder ==
    /\ Len(steps) <= Len(BatchSteps) + 1
    /\ \A k \in 1 .. Len(steps) : k <= Len(BatchSteps) => steps[k] = BatchSteps[k]
    /\ t_pc = "add_batch" => steps = BatchSteps
    /\ t_pc = "forward" => grads = 0
    /\ scheduler_steps <= optimizer_steps
    /\ optimizer_steps <= scheduler_steps + 1
    /\ t_pc = "returned" =>
         /\ optimizer_steps = Len(train_dataloader) * num_epochs
         /\ scheduler_steps = Len(train_dataloader) * num_epochs
         /\ num_training_steps = Len(train_dataloader) * num_epochs

C6_Witness == t_pc = "returned" /\ num_epochs >= 2 /\ Len(train_dataloader) >= 2 /\ optimizer_steps >= 4

\* C7: every forward pass over a training batch finds the model in training
\* mode, every forward pass of evaluate_model finds it in evaluation mode.
C7_ModeMatchesPass ==
    \A k \in 1 .. Len(events) :
        events[k].mode = (IF events[k].kind = "train" THEN "train" ELSE "eval")

C7_Witness ==
    /\ t_pc = "returned"
    /\ \E k \in 1 .. Len(events) : events[k].kind = "train" /\ events[k].epoch >= 1
    /\ \E k \in 1 .. Len(events) : events[k].kind = "val"
    /\ \E k \in 1 .. Len(events) : events[k].kind = "test"

\* The forward passes of one call of train, as C8 states them.
PassesOf(kind, e, n) == [b \in 1 .. n |-> [kind |-> kind, epoch |-> e, batch |-> b - 1]]

RECURSIVE EpochPasses(_, _, _)
EpochPasses(e, nb, nv) ==
    IF e = 0 THEN <<>>
    ELSE EpochPasses(e - 1, nb, nv) \o PassesOf("train", e - 1, nb) \o PassesOf("val", e - 1, nv)

\* C8: when train returns after N >= 1 epochs, it has passed over every
\* training batch once per epoch, over the validation data once per epoch
\* right after that epoch's training batches, and over the test data once
\* at the end, with the final model; it returns the means of the per-epoch
\* training and validation accuracies, each counting that epoch's batches
\* only, and the test accuracy.
C8_TrainResult ==
    t_pc = "returned" =>
        /\ num_epochs >= 1
        /\ [k \in 1 .. Len(events) |->
               [kind |-> events[k].kind, epoch |-> events[k].epoch, batch |-> events[k].batch]]
           = EpochPasses(num_epochs, Len(train_dataloader), Len(validation_dataloader))
               \o PassesOf("test", num_epochs, Len(test_dataloader))
        /\ \A k \in 1 .. Len(events) :
             /\ events[k].kind = "val" =>
                  events[k].version = (events[k].epoch + 1) * Len(train_dataloader)
             /\ events[k].kind = "test" =>
                  events[k].version = num_epochs * Len(train_dataloader)
        /\ Len(hits.train) = num_epochs
        /\ Len(hits.val) = num_epochs
        /\ FracEq(ret[1], Mean(hits.train))
        /\ FracEq(ret[2], Mean(hits.val))
        /\ ret[3] = [accuracy |-> hits.test]

C8_Witness ==
    /\ t_pc = "returned"
    /\ num_epochs >= 2
    /\ Len(train_dataloader) >= 2
    /\ hits.train[1] # hits.train[2]
    /\ hits.val[1] # hits.val[2]

\* C4: an item returned by __getitem__ has max_len = 128 input ids and 128
\* attention mask entries, whatever the lengths of question and passage,
\* and one label.
C4_FixedLengthItem ==
    d_pc = "item" =>
        /\ datasets.max_len = 128
        /\ Len(item.input_ids) = 128
        /\ Len(item.attention_mask) = 128
        /\ item.labels \in {0, 1}

\* The row read by the last __getitem__.
LastRow ==
    LET s == datasets.subsets[iter.which] IN Shuffled(s.split, s.lo + iter.index - 1)

\* an input longer than the limit has been read
C4_Witness ==
    /\ d_pc = "item"
    /\ iter.which # "none"
    /\ iter.index > 0
    /\ Len(Tokenize(InputEncoding(Question(LastRow), Passage(LastRow)))) + 2 > 128
    /\ item.attention_mask[128] = 1

====
